---- MODULE Spec2Model ----
(***************************************************************************)
(* A model of omicron-process (src/omicron/cli/process.py, main()):       *)
(*   - the segment engine (run span, truncation, data availability),      *)
(*   - the workflow compiler (the condor DAG: omicron nodes, one          *)
(*     post-processing node per parameter file and segment, the           *)
(*     max-concurrent ladder, the archive and rm nodes),                  *)
(*   - the execution driver (submission, segments.txt, the rescue loop).  *)
(* Spec is one run of main(); SpecDag is the compilation of a DAG and its *)
(* execution by a scheduler that starts a node once its parents are done; *)
(* SpecSeg is the segment engine on its own, over the segments of a data  *)
(* span that holds a metric-day boundary, with the resolvable segments of *)
(* omicron-status (src/omicron/cli/status.py).                            *)
(***************************************************************************)
EXTENDS Integers, Sequences, FiniteSets, TLC

VARIABLES
    pc,         \* position of main()
    args,       \* the parsed command line (args.reattach, args.dagman_option are mutated)
    running,    \* condor.dag_is_running(dagpath)
    nrescue,    \* number of rescue DAG files found
    newdag,     \* not args.rescue and not args.reattach
    segfile,    \* content of segments.txt: a list of segments, <<>> when the file is missing
    start,      \* start, end of the run span
    end,
    datastart,  \* start - padding, end + padding (dataend is moved by the truncation)
    dataend,
    segs,       \* the state/frame segments, later the data segments to process
    cachesegs,  \* segments of data found in the frame cache, within the data span
    alldata,    \* the cache reaches the end of the data span
    trigsegs,   \* the trigger segments: segs contracted by the padding
    span,       \* what is written to segments.txt
    dag,        \* dag.get_nodes(): the nodes in the order they were added
    i,          \* index of the submission loop
    nsubmit,    \* calls of condor.submit_dag that returned
    stats,      \* the DAG exit status seen at the end of each loop iteration
    writes,     \* the writes of segments.txt made by this run: <<site, i>>
    err,        \* the error that ended the run, "" when none
    attempts,   \* the count reported by "DAG has failed to complete %d times"
    files,      \* the files of the workflow this run has written or overwritten
    queries,    \* omicron-status: the calls of schedd.query and what each returned
    nagios,     \* omicron-status: the codes written to nagios-condor-<group>.json
    restep,     \* the loop of lines 870-873: its variables t, e, step and its count
    archived,   \* the files put in the log directory at the end: <<file, "copy" or "move">>
    cleaned,    \* the files clean_tempfiles was given
    nst         \* SpecDag: the scheduler's state of each node

vars == <<pc, args, running, nrescue, newdag, segfile, start, end, datastart,
          dataend, segs, cachesegs, alldata, trigsegs, span, dag, i, nsubmit,
          stats, writes, err, attempts, files, queries, nagios, restep,
          archived, cleaned, nst>>

-----------------------------------------------------------------------------
(* Bounds of the model *)

MaxRescue == 2          \* --submit-rescue-dag ranges over 0..MaxRescue
MaxSegs == 2            \* segments in a list returned by a data provider
MaxPrimaries == 6       \* SpecDag: omicron nodes in a compiled DAG
MaxConcurrent == 3      \* SpecDag: --max-concurrent ranges over 1..MaxConcurrent
MaxPairs == 4           \* SpecDag: (segment, parameter file) pairs of a compiled DAG

(* The configuration group of the module's docstring *)
chunkdur == 124
segdur == 64
overlap == 4
padding == overlap \div 2
Lookback == 4000

-----------------------------------------------------------------------------
(* Segments: <<start, end>>, half-open; segment lists are sorted sequences *)

Range(f) == {f[x] : x \in DOMAIN f}

Segment(a, b) == IF a <= b THEN <<a, b>> ELSE <<b, a>>

SegAbs(seg) == seg[2] - seg[1]

RECURSIVE SortSegs(_)
SortSegs(S) ==
    IF S = {} THEN <<>>
    ELSE LET m == CHOOSE x \in S : \A y \in S :
                      x[1] < y[1] \/ (x[1] = y[1] /\ x[2] <= y[2])
         IN <<m>> \o SortSegs(S \ {m})

RECURSIVE CoalesceFrom(_, _, _, _)
CoalesceFrom(L, j, lo, hi) ==
    IF j <= Len(L) /\ hi >= L[j][1]
    THEN CoalesceFrom(L, j + 1, lo, IF L[j][2] > hi THEN L[j][2] ELSE hi)
    ELSE (IF lo # hi THEN <<(<<lo, hi>>)>> ELSE <<>>)
         \o (IF j <= Len(L) THEN CoalesceFrom(L, j + 1, L[j][1], L[j][2]) ELSE <<>>)

Coalesce(L) ==
    LET S == SortSegs(Range(L))
    IN IF S = <<>> THEN <<>> ELSE CoalesceFrom(S, 2, S[1][1], S[1][2])

And(A, B) ==
    Coalesce(SortSegs({ <<IF a[1] > b[1] THEN a[1] ELSE b[1],
                          IF a[2] < b[2] THEN a[2] ELSE b[2]>> :
                        <<a, b>> \in { p \in Range(A) \X Range(B) :
                            /\ p[1][1] < p[2][2] /\ p[2][1] < p[1][2]
                            /\ p[1][1] < p[1][2] /\ p[2][1] < p[2][2] } }))

(* the segments are left as they are *)
NoContract(L, x) == L

Contract(L, x) == Coalesce([k \in DOMAIN L |-> Segment(L[k][1] + x, L[k][2] - x)])

Extent(L) == <<L[1][1], L[Len(L)][2]>>

Last(L) == L[Len(L)]

Front(L) == SubSeq(L, 1, Len(L) - 1)

(* All coalesced lists of exactly n segments with end points in P *)
RECURSIVE SegListsN(_, _)
SegListsN(P, n) ==
    IF n = 0 THEN {<<>>}
    ELSE { Append(x[1], <<x[2], x[3]>>) :
             x \in { y \in SegListsN(P, n - 1) \X P \X P :
                       /\ y[2] < y[3]
                       /\ (y[1] = <<>> \/ Last(y[1])[2] < y[2]) } }

SegLists(P) == UNION { SegListsN(P, n) : n \in 0..MaxSegs }

-----------------------------------------------------------------------------
(* The workflow compiler: lines 1074-1302 of process.py *)

(* the segment is given to one node, whatever its duration *)
distribute_whole(s, e, nperjob) == << <<s, e>> >>

(* oconfig.distribute_segment(s, e, nperjob): consecutive sub-spans of at  *)
(* most nperjob chunk durations, the last one possibly shorter             *)
distribute_segment(s, e, nperjob) ==
    LET M == nperjob * chunkdur
        n == ((e - s) + M - 1) \div M
    IN [k \in 1..n |-> <<s + (k - 1) * M, IF s + k * M < e THEN s + k * M ELSE e>>]

(* oconfig.write_distributed(pardir, nchannels): the parameter files, one  *)
(* per group of at most nchannels channels; jobfiles[g] is the chanlist    *)
write_distributed(nchan, nperjob) ==
    LET n == (nchan + nperjob - 1) \div nperjob
    IN [g \in 1..n |->
          [c \in 1..(IF g * nperjob <= nchan THEN nperjob ELSE nchan - (g - 1) * nperjob)
             |-> (g - 1) * nperjob + c]]

(* A pipeline.CondorDAGNode: job is the tag of its CondorDAGJob, pfile the *)
(* index of the parameter file in jobfiles, parents the list add_parent    *)
(* built, as positions in dag                                              *)
Node(job, category, seg, pfile, subseg, parents, retry) ==
    [job |-> job, category |-> category, seg |-> seg, pfile |-> pfile,
     subseg |-> subseg, parents |-> parents, retry |-> retry]

(* a node that set_retry was not called on: CondorDAGNode starts with 0 *)
NoRetry(a) == 0

(* node.set_retry(args.condor_retry) (1101, 1196, 1269) *)
set_retry(a) == a.condor_retry

(* the (segment, parameter file) pairs in the order of the two outer loops *)
LoopPairs(sl, njobfiles) ==
    [k \in 1..(Len(sl) * njobfiles) |->
        <<sl[((k - 1) \div njobfiles) + 1], ((k - 1) % njobfiles) + 1>>]

(* the omicron nodes of one parameter file and one segment (1094-1125) *)
OmicronNodes(a, seg, pf) ==
    LET nodesegs == distribute_segment(seg[1], seg[2], a.max_chunks_per_job)
    IN IF a.skip_omicron THEN <<>>
       ELSE [k \in 1..Len(nodesegs) |->
               Node("omicron", "omicron", seg, pf, nodesegs[k], <<>>,
                    set_retry(a))]

(* `nodes` is not emptied between parameter files and segments *)
PostProcessParentsKept(a, base, nodes) ==
    IF a.skip_omicron THEN <<>> ELSE [k \in 1..(base + Len(nodes)) |-> k]

(* the parents given to the post-processing node (1197-1199): `nodes`, the *)
(* omicron nodes just built for this parameter file and this segment       *)
PostProcessParents(a, base, nodes) ==
    IF a.skip_omicron THEN <<>> ELSE [k \in 1..Len(nodes) |-> base + k]

(* the node is created under the guard of the script (1205): not in a     *)
(* rescue run                                                              *)
PostProcessNodesFreshOnly(a, seg, pf, base, nodes) ==
    IF a.skip_postprocessing \/ a.rescue THEN <<>>
    ELSE << Node("post-processing", "postprocessing", seg, pf, <<>>,
                 PostProcessParents(a, base, nodes), set_retry(a)) >>

(* the post-processing node of one parameter file and one segment (1129-1201) *)
PostProcessNodes(a, seg, pf, base, nodes) ==
    IF a.skip_postprocessing THEN <<>>
    ELSE << Node("post-processing", "postprocessing", seg, pf, <<>>,
                 PostProcessParents(a, base, nodes), set_retry(a)) >>

(* the loops over segs and jobfiles (1077-1224) *)
RECURSIVE BuildNodes(_, _, _, _)
BuildNodes(a, pairs, k, d) ==
    IF k > Len(pairs) THEN d
    ELSE LET nodes == OmicronNodes(a, pairs[k][1], pairs[k][2])
             pp == PostProcessNodes(a, pairs[k][1], pairs[k][2], Len(d), nodes)
         IN BuildNodes(a, pairs, k + 1, d \o nodes \o pp)

Positions(d, job) == { n \in DOMAIN d : d[n].job = job }

(* oconfig.output_files(subseg): for each channel and each output format   *)
(* the per-chunk files a node writes for the sub-span; the files of one    *)
(* (channel, format, sub-span) are kept together as <<chan, form, subseg>> *)
output_files(a, subseg) ==
    [c \in 1..a.nchannels |-> [form \in a.fileformats |-> {<<c, form, subseg>>}]]

(* omicronfiles[chan][form] when the post-processing node of (seg, pf) is  *)
(* built (1110-1123): the files of every sub-span of the segment           *)
omicronfiles(a, seg, chan, form) ==
    LET nodesegs == distribute_segment(seg[1], seg[2], a.max_chunks_per_job)
    IN UNION { output_files(a, nodesegs[k])[chan][form] : k \in DOMAIN nodesegs }

(* ppnode.add_input_file(f) (1149, 1160, 1172, 1186): the files of every   *)
(* channel of the parameter file, in every format                          *)
InputFiles(a, node) ==
    LET chanlist == write_distributed(a.nchannels, a.max_channels_per_job)[node.pfile]
    IN UNION { omicronfiles(a, node.seg, c, form) :
                 c \in Range(chanlist),
                 form \in a.fileformats \cap {"root", "hdf5", "xml", "txt"} }

(* lines 1150, 1162, 1175: the option that sets no_merge for the format;   *)
(* the HDF5 block reads args.skip_root_merge, and args.skip_hdf5_merge is  *)
(* read nowhere                                                            *)
NoMerge(a, form) ==
    CASE form = "root" -> a.skip_root_merge
      [] form = "hdf5" -> a.skip_root_merge
      [] form = "xml" -> a.skip_ligolw_add

(* lines 1146-1181: the omicron-merge operation appended for one channel   *)
(* and one format: its option markers and the files it is given            *)
Operation(a, node, c, form) ==
    [markers |-> (IF NoMerge(a, form) THEN {"--no-merge"} ELSE {})
                 \cup (IF form = "xml" /\ a.skip_gzip THEN {"--no-gzip"} ELSE {})
                 \cup (IF form = "xml" THEN {"--uint-bug"} ELSE {}),
     files |-> omicronfiles(a, node.seg, c, form)]

(* the formats whose files are appended to rmfiles (1154, 1166, 1181,      *)
(* 1192): txt files are listed only when they are archived                 *)
RmFormats(a) ==
    (a.fileformats \cap {"root", "hdf5", "xml"})
        \cup (IF a.archive THEN a.fileformats \cap {"txt"} ELSE {})

(* rmfiles, as printed into the rm script (1290-1291) *)
RmFiles(a, d) ==
    { f \in UNION { InputFiles(a, d[n]) : n \in Positions(d, "post-processing") } :
        f[2] \in RmFormats(a) }

(* omicronfiles is empty when omicron is skipped, and omicronfiles[c][fmt] *)
(* raises KeyError in the post-processing block (1148, 1159, 1171, 1185)   *)
CompileRaises(a) ==
    /\ a.skip_omicron
    /\ ~a.skip_postprocessing
    /\ a.fileformats # {}

RECURSIVE SortedSeq(_)
SortedSeq(S) ==
    IF S = {} THEN <<>>
    ELSE LET m == CHOOSE x \in S : \A y \in S : x <= y
         IN <<m>> \o SortedSeq(S \ {m})

(* the edge is added the wrong way round: pj.add_parent(cj) *)
AddParentsSwapped(d, parent_jobs, child_jobs) ==
    [n \in DOMAIN d |->
        IF n \in Range(parent_jobs)
        THEN [d[n] EXCEPT !.parents = @ \o child_jobs]
        ELSE d[n]]

(* for pj in parent_jobs: for cj in child_jobs: cj.add_parent(pj) *)
AddParents(d, parent_jobs, child_jobs) ==
    [n \in DOMAIN d |->
        IF n \in Range(child_jobs)
        THEN [d[n] EXCEPT !.parents = @ \o parent_jobs]
        ELSE d[n]]

(* the ladder without the linking after the loop (1239-1242) *)
RECURSIVE LadderNoTail(_, _, _, _, _, _)
LadderNoTail(d, omicron_nodes, k, parent_jobs, child_jobs, maxcon) ==
    IF k > Len(omicron_nodes)
    THEN d
    ELSE LET j == omicron_nodes[k]
         IN IF Len(parent_jobs) < maxcon
            THEN LadderNoTail(d, omicron_nodes, k + 1, Append(parent_jobs, j), child_jobs, maxcon)
            ELSE IF Len(child_jobs) < maxcon
            THEN LadderNoTail(d, omicron_nodes, k + 1, parent_jobs, Append(child_jobs, j), maxcon)
            ELSE LadderNoTail(AddParents(d, parent_jobs, child_jobs), omicron_nodes, k + 1,
                              child_jobs, <<j>>, maxcon)

(* the ladder whose parent_jobs is never moved on to the last full wave *)
RECURSIVE LadderFirstWave(_, _, _, _, _, _)
LadderFirstWave(d, omicron_nodes, k, parent_jobs, child_jobs, maxcon) ==
    IF k > Len(omicron_nodes)
    THEN IF Len(child_jobs) > 0 /\ Len(parent_jobs) > 0
         THEN AddParents(d, parent_jobs, child_jobs)
         ELSE d
    ELSE LET j == omicron_nodes[k]
         IN IF Len(parent_jobs) < maxcon
            THEN LadderFirstWave(d, omicron_nodes, k + 1, Append(parent_jobs, j), child_jobs, maxcon)
            ELSE IF Len(child_jobs) < maxcon
            THEN LadderFirstWave(d, omicron_nodes, k + 1, parent_jobs, Append(child_jobs, j), maxcon)
            ELSE LadderFirstWave(AddParents(d, parent_jobs, child_jobs), omicron_nodes, k + 1,
                                 parent_jobs, <<j>>, maxcon)

(* the max-concurrent ladder (1225-1242); omicron_nodes are positions in d *)
RECURSIVE Ladder(_, _, _, _, _, _)
Ladder(d, omicron_nodes, k, parent_jobs, child_jobs, maxcon) ==
    IF k > Len(omicron_nodes)
    THEN IF Len(child_jobs) > 0 /\ Len(parent_jobs) > 0
         THEN AddParents(d, parent_jobs, child_jobs)
         ELSE d
    ELSE LET j == omicron_nodes[k]
         IN IF Len(parent_jobs) < maxcon
            THEN Ladder(d, omicron_nodes, k + 1, Append(parent_jobs, j), child_jobs, maxcon)
            ELSE IF Len(child_jobs) < maxcon
            THEN Ladder(d, omicron_nodes, k + 1, parent_jobs, Append(child_jobs, j), maxcon)
            ELSE Ladder(AddParents(d, parent_jobs, child_jobs), omicron_nodes, k + 1,
                        child_jobs, <<j>>, maxcon)

(* the archive node is made a child of the omicron nodes *)
ArchiveParentsOmicron(d) == SortedSeq(Positions(d, "omicron"))

(* the parents of the archive node (1267-1268): every post-processing node *)
ArchiveParents(d) == SortedSeq(Positions(d, "post-processing"))

(* the archive node (1250-1272) *)
AddArchive(a, d) ==
    IF a.archive
    THEN Append(d, Node("archive", "archive", <<>>, 0, <<>>, ArchiveParents(d),
                        set_retry(a)))
    ELSE d

(* the rm node is made a child of the omicron nodes *)
RmParentsOmicron(a, d) == SortedSeq(Positions(d, "omicron"))

(* the parents of the rm node (1295-1301) *)
RmParents(a, d) ==
    IF a.archive THEN SortedSeq(Positions(d, "archive"))
    ELSE SortedSeq(Positions(d, "post-processing"))

(* the rm node (1274-1302); its category is 'postprocessing' *)
AddRm(a, d) ==
    IF ~a.skip_rm
    THEN Append(d, Node("post-processing-rm", "postprocessing", <<>>, 0, <<>>,
                        RmParents(a, d), 0))
    ELSE d

(* the whole compilation: the nodes of dag in the order dag.add_node saw   *)
(* them, which is also the order in which the nodes were created           *)
CompileDag(a, sl) ==
    LET jobfiles == write_distributed(a.nchannels, a.max_channels_per_job)
        d1 == BuildNodes(a, LoopPairs(sl, Len(jobfiles)), 1, <<>>)
        d2 == Ladder(d1, SortedSeq(Positions(d1, "omicron")), 1, <<>>, <<>>,
                     a.max_concurrent)
    IN AddRm(a, AddArchive(a, d2))

-----------------------------------------------------------------------------
(* The command line: create_parser() (173-473) and its defaults *)

DefaultArgs ==
    [online |-> TRUE, gps |-> <<0, 0>>,
     reattach |-> FALSE, rescue |-> FALSE, no_submit |-> FALSE,
     submit_rescue_dag |-> 0, dagman_option |-> <<"force">>,
     use_dev_shm |-> FALSE,
     archive |-> FALSE, skip_omicron |-> FALSE, skip_postprocessing |-> FALSE,
     skip_rm |-> FALSE, fileformats |-> {"root"},
     skip_root_merge |-> FALSE, skip_hdf5_merge |-> FALSE,
     skip_ligolw_add |-> FALSE, skip_gzip |-> FALSE, condor_retry |-> 2,
     max_chunks_per_job |-> 4, max_concurrent |-> 10,
     nchannels |-> 1, max_channels_per_job |-> 10]

-----------------------------------------------------------------------------
(* SpecDag: a DAG is compiled from a segment list, then executed by a      *)
(* scheduler that starts a node only when all its parents are done         *)

DagSegDurs == {segdur, 200, 300}

(* lists of short segments, and one list with a segment of ten chunks *)
DagSegLists ==
    UNION { [1..n -> DagSegDurs] : n \in 1..MaxSegs } \cup { <<300, 10 * chunkdur>> }

(* segment k of the list starts at 1000 * k *)
DagSegs(durs) == [k \in DOMAIN durs |-> <<1000 * k, 1000 * k + durs[k]>>]

DagChannelOpts == {<<1, 10>>, <<2, 1>>}

RECURSIVE SumSubsegs(_, _, _)
SumSubsegs(sl, k, nperjob) ==
    IF k > Len(sl) THEN 0
    ELSE Len(distribute_segment(sl[k][1], sl[k][2], nperjob))
         + SumSubsegs(sl, k + 1, nperjob)

NPrimaries(a, sl) ==
    SumSubsegs(sl, 1, a.max_chunks_per_job)
    * Len(write_distributed(a.nchannels, a.max_channels_per_job))

DagArgs ==
    { [DefaultArgs EXCEPT !.archive = f[1], !.skip_omicron = f[2],
                          !.skip_postprocessing = f[3], !.skip_rm = f[4],
                          !.fileformats = ff,
                          !.max_chunks_per_job = mc, !.max_concurrent = mx,
                          !.nchannels = ch[1], !.max_channels_per_job = ch[2]] :
        f \in BOOLEAN \X BOOLEAN \X BOOLEAN \X BOOLEAN,
        ff \in {{}, {"root"}, {"root", "txt"}}, mc \in {1, 4}, mx \in 1..MaxConcurrent,
        ch \in DagChannelOpts }

(* the output formats matter to the build only when omicron is skipped *)
DagInit ==
    /\ pc = "compile"
    /\ args \in { a \in DagArgs : a.fileformats = {} => a.skip_omicron }
    /\ segs \in { DagSegs(durs) : durs \in DagSegLists }
    /\ NPrimaries(args, segs) <= MaxPrimaries
    /\ Len(segs) * Len(write_distributed(args.nchannels, args.max_channels_per_job))
          <= MaxPairs
    /\ running = FALSE /\ nrescue = 0 /\ newdag = TRUE
    /\ segfile = <<>> /\ start = 0 /\ end = 0 /\ datastart = 0 /\ dataend = 0
    /\ cachesegs = <<>> /\ alldata = FALSE /\ span = <<>>
    /\ dag = <<>> /\ i = 0 /\ nsubmit = 0 /\ stats = <<>> /\ writes = <<>>
    /\ err = "" /\ attempts = 0 /\ nst = <<>> /\ trigsegs = <<>> /\ files = {}
    /\ queries = <<>> /\ nagios = <<>> /\ restep = <<>>
    /\ archived = {} /\ cleaned = {}

(* lines 1074-1302: the DAG is built, or the build raises KeyError *)
DagCompile ==
    /\ pc = "compile"
    /\ IF CompileRaises(args)
       THEN /\ pc' = "raised" /\ err' = "KeyError"
            /\ UNCHANGED <<dag, nst>>
       ELSE /\ pc' = "exec"
            /\ dag' = CompileDag(args, segs)
            /\ nst' = [n \in DOMAIN dag' |-> "idle"]
            /\ err' = err
    /\ UNCHANGED <<args, running, nrescue, newdag, segfile, start, end, datastart,
                   dataend, segs, cachesegs, alldata, span, i, nsubmit, stats,
                   writes, attempts, trigsegs, files,
                   queries, nagios, restep, archived, cleaned>>

(* no node has a post script *)
NoPostScript(node) == FALSE

(* lines 1104-1107: an omicron node has the post script bash -c 'exit 0';  *)
(* no other node has a post script                                         *)
HasPostScript(node) == node.job = "omicron"

(* the execution service counts a node as successful when its job exited   *)
(* with 0, or when its post script did whatever the job did ("swallowed")  *)
NodeSucceeded(n) == nst[n] \in {"done", "swallowed"}

(* a node may start when each of its parents has succeeded *)
CanStart(n) ==
    /\ nst[n] = "idle"
    /\ \A p \in Range(dag[n].parents) : NodeSucceeded(p)

StartNode(n) ==
    /\ pc = "exec"
    /\ CanStart(n)
    /\ nst' = [nst EXCEPT ![n] = "running"]
    /\ UNCHANGED <<pc, args, running, nrescue, newdag, segfile, start, end,
                   datastart, dataend, segs, cachesegs, alldata, span, dag, i,
                   nsubmit, stats, writes, err, attempts, trigsegs, files,
                   queries, nagios, restep, archived, cleaned>>

FinishNode(n) ==
    /\ pc = "exec"
    /\ nst[n] = "running"
    /\ nst' = [nst EXCEPT ![n] = "done"]
    /\ UNCHANGED <<pc, args, running, nrescue, newdag, segfile, start, end,
                   datastart, dataend, segs, cachesegs, alldata, span, dag, i,
                   nsubmit, stats, writes, err, attempts, trigsegs, files,
                   queries, nagios, restep, archived, cleaned>>

DagNext ==
    \/ DagCompile
    \/ \E n \in DOMAIN dag : StartNode(n)
    \/ \E n \in DOMAIN dag : FinishNode(n)

SpecDag == DagInit /\ [][DagNext]_vars

-----------------------------------------------------------------------------
(* SpecOps: the DAG of two segments, for every choice of the output        *)
(* formats that are merged, of the options that skip a merge or gzip, and  *)
(* of the number of retries                                                *)

MergedFormats == {"root", "hdf5", "xml"}

(* --condor-retry: its default, and another value *)
CondorRetries == {2, 5}

OpsArgs ==
    { [DefaultArgs EXCEPT !.fileformats = ff,
                          !.skip_root_merge = f[1], !.skip_hdf5_merge = f[2],
                          !.skip_ligolw_add = f[3], !.skip_gzip = f[4],
                          !.condor_retry = r] :
        ff \in (SUBSET MergedFormats) \ {{}},
        f \in BOOLEAN \X BOOLEAN \X BOOLEAN \X BOOLEAN,
        r \in CondorRetries }

OpsInit ==
    /\ pc = "compile"
    /\ args \in OpsArgs
    /\ segs = DagSegs(<<segdur, 5 * chunkdur>>)
    /\ running = FALSE /\ nrescue = 0 /\ newdag = TRUE
    /\ segfile = <<>> /\ start = 0 /\ end = 0 /\ datastart = 0 /\ dataend = 0
    /\ cachesegs = <<>> /\ alldata = FALSE /\ span = <<>>
    /\ dag = <<>> /\ i = 0 /\ nsubmit = 0 /\ stats = <<>> /\ writes = <<>>
    /\ err = "" /\ attempts = 0 /\ nst = <<>> /\ trigsegs = <<>> /\ files = {}
    /\ queries = <<>> /\ nagios = <<>> /\ restep = <<>>
    /\ archived = {} /\ cleaned = {}

SpecOps == OpsInit /\ [][DagNext]_vars

-----------------------------------------------------------------------------
(* SpecFail: the execution of a compiled DAG whose jobs may fail. The      *)
(* execution service goes on as long as a node can start or end (weak      *)
(* fairness of its step)                                                   *)

FailSegs == DagSegs(<<300>>)

(* the state DagCompile leaves: one segment, one parameter file, omicron,  *)
(* post-processing and rm nodes present                                    *)
FailInit ==
    /\ pc = "exec"
    /\ args \in { a \in DagArgs :
                    /\ a.nchannels = 1 /\ a.max_concurrent <= 2
                    /\ ~a.skip_omicron /\ ~a.skip_postprocessing /\ ~a.skip_rm
                    /\ a.fileformats = {"root"}
                    /\ ~CompileRaises(a) }
    /\ segs = FailSegs
    /\ dag = CompileDag(args, segs)
    /\ nst = [n \in DOMAIN dag |-> "idle"]
    /\ running = FALSE /\ nrescue = 0 /\ newdag = TRUE
    /\ segfile = <<>> /\ start = 0 /\ end = 0 /\ datastart = 0 /\ dataend = 0
    /\ cachesegs = <<>> /\ alldata = FALSE /\ span = <<>>
    /\ i = 0 /\ nsubmit = 0 /\ stats = <<>> /\ writes = <<>>
    /\ err = "" /\ attempts = 0 /\ trigsegs = <<>> /\ files = {}
    /\ queries = <<>> /\ nagios = <<>> /\ restep = <<>>
    /\ archived = {} /\ cleaned = {}

(* the job of a running node exits with a non-zero code once its retries   *)
(* are used up: the node has failed, unless its post script exits with 0    *)
JobFails(n) ==
    /\ pc = "exec"
    /\ nst[n] = "running"
    /\ nst' = [nst EXCEPT ![n] = IF HasPostScript(dag[n]) THEN "swallowed"
                                 ELSE "failed"]
    /\ UNCHANGED <<pc, args, running, nrescue, newdag, segfile, start, end,
                   datastart, dataend, segs, cachesegs, alldata, span, dag, i,
                   nsubmit, stats, writes, err, attempts, trigsegs, files,
                   queries, nagios, restep, archived, cleaned>>

FailNext ==
    \/ \E n \in DOMAIN dag : StartNode(n)
    \/ \E n \in DOMAIN dag : FinishNode(n)
    \/ \E n \in DOMAIN dag : JobFails(n)

SpecFail == FailInit /\ [][FailNext]_vars /\ WF_vars(FailNext)

-----------------------------------------------------------------------------
(* Spec: one run of main() *)

(* data.get_latest_data_gps(ifo, frametype) *)
Latests == {2000}

(* segments.txt before the run: missing, or the span of an earlier run *)
SegFiles == { <<>>, << <<1500, 1696>> >>, << <<1500, 1796>> >>, << <<1500, 1950>> >> }

(* --gps start end *)
GpsSpans == { <<1696, 1998>>, <<1950, 1998>> }

(* rescue DAG files found in the condor directory *)
NRescues == 0..1

DagmanOptions == { <<"force">>, <<"force", "force">> }

(* the end points of the segments a state or frame-availability query may *)
(* return for [ds, de), and of the frame files found for it               *)
StateOffs == {0, 40}

FrameOffs == {-16, 40, 120}

StatePts(ds, de) ==
    { q \in {ds + o : o \in StateOffs} \cup {de - o : o \in StateOffs} :
        ds <= q /\ q <= de }

FramePts(ds, de) == {ds + o : o \in FrameOffs} \cup {de + 16}

Modes == {"", "reattach", "rescue", "no_submit"}

DriverArgs ==
    { [DefaultArgs EXCEPT !.online = (g = <<0, 0>>), !.gps = g,
                          !.reattach = (m = "reattach"), !.rescue = (m = "rescue"),
                          !.no_submit = (m = "no_submit"),
                          !.submit_rescue_dag = n, !.dagman_option = o,
                          !.use_dev_shm = s, !.archive = ar] :
        g \in GpsSpans \cup {<<0, 0>>}, m \in Modes, n \in 0..MaxRescue,
        o \in DagmanOptions, s \in BOOLEAN, ar \in BOOLEAN }

Init ==
    /\ pc = "start"
    /\ args \in { a \in DriverArgs : a.use_dev_shm => a.online }
    /\ segfile \in SegFiles
    /\ running = FALSE /\ nrescue = 0 /\ newdag = FALSE
    /\ start = 0 /\ end = 0 /\ datastart = 0 /\ dataend = 0
    /\ segs = <<>> /\ cachesegs = <<>> /\ alldata = FALSE /\ span = <<>>
    /\ dag = <<>> /\ i = 0 /\ nsubmit = 0 /\ stats = <<>> /\ writes = <<>>
    /\ err = "" /\ attempts = 0 /\ nst = <<>> /\ trigsegs = <<>> /\ files = {}
    /\ queries = <<>> /\ nagios = <<>> /\ restep = <<>>
    /\ archived = {} /\ cleaned = {}

Count(s, x) == Cardinality({ k \in DOMAIN s : s[k] = x })

(* list.pop(k), k counted from 1 *)
Pop(s, k) == SubSeq(s, 1, k - 1) \o SubSeq(s, k + 1, Len(s))

IndexOf(s, x) == CHOOSE k \in DOMAIN s : s[k] = x /\ \A j \in 1..(k - 1) : s[j] # x

Raise(e) == pc' = "raised" /\ err' = e

(* lines 521-529: --rescue against --dagman-option force *)
ParseArgs ==
    /\ pc = "start"
    /\ IF args.rescue /\ Count(args.dagman_option, "force") > 1
       THEN Raise("parser.error") /\ args' = args
       ELSE /\ pc' = "check" /\ err' = err
            /\ args' = IF args.rescue
                       THEN [args EXCEPT !.dagman_option = Pop(@, 1)]
                       ELSE args
    /\ UNCHANGED <<running, nrescue, newdag, segfile, start, end, datastart,
                   dataend, segs, cachesegs, alldata, span, dag, i, nsubmit,
                   stats, writes, attempts, nst, trigsegs, files,
                   queries, nagios, restep, archived, cleaned>>

(* a running DAG is not looked for *)
AlreadyRunningIgnored(r, a) == FALSE

(* lines 692-698: a running DAG is refused unless --reattach was given *)
AlreadyRunning(r, a) == r /\ ~a.reattach

(* --reattach is kept when no DAG is running *)
ReattachKept(r, a) == a.reattach

(* lines 692-702: args.reattach is reset when no DAG is running *)
Reattach(r, a) == IF r THEN a.reattach ELSE FALSE

(* the rescue files are not counted *)
NoRescueDagIgnored(a, nr) == FALSE

(* lines 706-707: --rescue given but no rescue DAG file found *)
NoRescueDag(a, nr) == a.rescue /\ nr = 0

(* lines 708-714: rescue DAG files found, neither --rescue nor 'force' *)
RescueDagsFound(a, nr) ==
    nr > 0 /\ ~a.rescue /\ Count(a.dagman_option, "force") = 0

(* a new DAG is created unless --rescue was given *)
NewDagUnlessRescue(a, reattach) == ~a.rescue

(* line 716 *)
NewDag(a, reattach) == ~a.rescue /\ ~reattach

(* lines 687-716: an already running DAG, the rescue files, the mode *)
CheckExisting ==
    /\ pc = "check"
    /\ \E r \in BOOLEAN, nr \in NRescues :
        /\ running' = r
        /\ nrescue' = nr
        /\ IF AlreadyRunning(r, args)
           THEN Raise("RuntimeError: already running") /\ UNCHANGED <<args, newdag>>
           ELSE LET reattach == Reattach(r, args)
                IN /\ args' = [args EXCEPT !.reattach = reattach]
                   /\ IF NoRescueDag(args, nr)
                      THEN Raise("RuntimeError: no rescue DAG") /\ newdag' = newdag
                      ELSE IF RescueDagsFound(args, nr)
                      THEN Raise("RuntimeError: rescue DAGs found") /\ newdag' = newdag
                      ELSE /\ newdag' = NewDag(args, reattach)
                           /\ pc' = "span" /\ err' = err
    /\ UNCHANGED <<segfile, start, end, datastart, dataend, segs, cachesegs,
                   alldata, span, dag, i, nsubmit, stats, writes, attempts, nst, trigsegs, files,
                   queries, nagios, restep, archived, cleaned>>

(* segments.get_last_run_segment(segfile): the last segment of the file *)
get_last_run_segment(f) == Last(f)

(* segments.write_segments(segmentlist, segfile): the file is overwritten *)
write_segments(sl) == sl

(* the duration of the span is not validated *)
TooShortNever(ds, de) == FALSE

(* lines 764-777: one full chunk is the minimum *)
TooShort(ds, de) == de - ds < 1 * chunkdur

(* the record of the last run is not looked at *)
NominalStartNoRecord(a, sf, e) ==
    IF a.use_dev_shm THEN e - chunkdur + padding ELSE e - Lookback

(* lines 729-740: the start of an online run that creates a new DAG: the   *)
(* end of the last run, or one chunk, or 4000 seconds before the end       *)
NominalStart(a, sf, e) ==
    IF sf # <<>> THEN get_last_run_segment(sf)[2]
    ELSE IF a.use_dev_shm THEN e - chunkdur + padding
    ELSE e - Lookback

(* lines 723-777: the run span, and the check of its duration *)
FindRunSegment ==
    /\ pc = "span"
    /\ \E latest \in Latests :
        LET missing == args.online /\ ~newdag /\ segfile = <<>>
            e == IF newdag /\ args.online THEN latest - padding
                 ELSE IF args.online THEN get_last_run_segment(segfile)[2]
                 ELSE args.gps[2]
            s == IF newdag /\ args.online
                 THEN NominalStart(args, segfile, e)
                 ELSE IF args.online THEN get_last_run_segment(segfile)[1]
                 ELSE args.gps[1]
        IN IF missing
           THEN Raise("IOError") /\ UNCHANGED <<start, end, datastart, dataend>>
           ELSE /\ start' = s /\ end' = e
                /\ datastart' = s - padding
                /\ dataend' = e + padding
                /\ IF TooShort(datastart', dataend')
                   THEN IF args.online
                        THEN pc' = "exit0" /\ err' = err
                        ELSE Raise("ValueError: too short")
                   ELSE pc' = "segments" /\ err' = err
    /\ UNCHANGED <<args, running, nrescue, newdag, segfile, segs, cachesegs,
                   alldata, span, dag, i, nsubmit, stats, writes, attempts, nst, trigsegs, files,
                   queries, nagios, restep, archived, cleaned>>

(* the last segment is truncated in every mode *)
TruncateAnyMode(sl, de) == sl # <<>> /\ Last(sl)[2] = de

(* lines 840-846 *)
Truncate(sl, de) == sl # <<>> /\ args.online /\ newdag /\ Last(sl)[2] = de

(* lines 870-873: while t + chunkdur <= e: t += step; step = chunkdur - overlap *)
RECURSIVE Restep(_, _, _)
Restep(t, e, step) ==
    IF t + chunkdur <= e THEN Restep(t + step, e, chunkdur - overlap) ELSE t

(* lines 851-876: the segments after the truncation *)
TruncatedSegs(sl, de) ==
    IF Truncate(sl, de) /\ SegAbs(Last(sl)) < chunkdur * 2
    THEN Front(sl)
    ELSE IF Truncate(sl, de)
    THEN Append(Front(sl),
                Segment(Last(sl)[1],
                        Restep(Last(sl)[1], Last(sl)[2] - (chunkdur + padding), chunkdur)))
    ELSE sl

(* dataend is left where it was *)
TruncatedEndKept(sl, de) == de

(* lines 858, 875: dataend after the truncation *)
TruncatedEnd(sl, de) ==
    IF Truncate(sl, de) /\ SegAbs(Last(sl)) < chunkdur * 2
    THEN Last(sl)[1]
    ELSE IF Truncate(sl, de)
    THEN Last(TruncatedSegs(sl, de))[2]
    ELSE de

(* lines 779-879: the state (or frame) segments of the data span, truncated *)
FindSegments ==
    /\ pc = "segments"
    /\ \E sl \in SegLists(StatePts(datastart, dataend)) :
        /\ segs' = TruncatedSegs(sl, dataend)
        /\ dataend' = TruncatedEnd(sl, dataend)
    /\ pc' = "frames"
    /\ UNCHANGED <<args, running, nrescue, newdag, segfile, start, end, datastart,
                   cachesegs, alldata, span, dag, i, nsubmit, stats, writes, err,
                   attempts, nst, trigsegs, files,
                   queries, nagios, restep, archived, cleaned>>

(* lines 900-910: the cache reaches the end of the data span *)
AllData(cs, de) == cs # <<>> /\ Last(cs)[2] >= de

(* no segment is dropped for its duration *)
MinDurationNone(sl) == sl

(* line 938: the minimum duration is applied to segs itself; the list      *)
(* seg_tmp built at 925-936 from the segments split at a metric day is     *)
(* never read                                                              *)
MinDuration(sl) == SelectSeq(sl, LAMBDA s : SegAbs(s) >= segdur)

(* the record is written whether or not the data are up to date *)
CatchUpAlways(nd, sl, online, all) == nd /\ Len(sl) = 0 /\ online

(* line 942: no analysable segments, but up-to-date data are available *)
CatchUp(nd, sl, online, all) == nd /\ Len(sl) = 0 /\ online /\ all

(* an empty list of segments is not looked for *)
NoSegmentsIgnored(sl) == FALSE

(* lines 953, 958: len(segs) == 0 *)
NoSegments(sl) == Len(sl) = 0

(* lines 912-916: frames.lcf is written only when a new DAG is created *)
FrameCacheWrites(nd) == IF nd THEN {"frames.lcf"} ELSE {}

(* lines 881-970: the frames, the data segments, the trigger segments *)
FindFrames ==
    /\ pc = "frames"
    /\ \E cache \in SegLists(FramePts(datastart, dataend)) :
        LET dataspan == << Segment(datastart, dataend) >>
            cs == And(cache, dataspan)
            all == AllData(cs, dataspan[1][2])
            sl == MinDuration(And(cs, segs))
        IN IF ~args.online /\ Len(cache) = 0
           THEN /\ Raise("RuntimeError: no frames")
                /\ UNCHANGED <<cachesegs, alldata, segs, segfile, writes, span,
                               trigsegs, files>>
           ELSE /\ cachesegs' = cs
                /\ files' = files \cup FrameCacheWrites(newdag)
                /\ alldata' = all
                /\ segs' = sl
                /\ IF CatchUp(newdag, sl, args.online, all)
                   THEN /\ segfile' = write_segments(cs)
                        /\ writes' = Append(writes, <<"catchup", 0>>)
                        /\ pc' = "exit0" /\ err' = err
                        /\ UNCHANGED <<span, trigsegs>>
                   ELSE IF NoSegments(sl) /\ args.online
                   THEN /\ pc' = "exit0" /\ err' = err
                        /\ UNCHANGED <<segfile, writes, span, trigsegs>>
                   ELSE IF NoSegments(sl)
                   THEN /\ Raise("RuntimeError: no segments")
                        /\ UNCHANGED <<segfile, writes, span, trigsegs>>
                   ELSE /\ trigsegs' = Contract(sl, padding)
                        /\ IF trigsegs' = <<>>
                           THEN /\ Raise("ValueError: extent")
                                /\ span' = span
                           ELSE /\ span' = << Extent(trigsegs') >>
                                /\ pc' = "compile" /\ err' = err
                        /\ UNCHANGED <<segfile, writes>>
    /\ UNCHANGED <<args, running, nrescue, newdag, start, end, datastart, dataend,
                   dag, i, nsubmit, stats, attempts, nst,
                   queries, nagios, restep, archived, cleaned>>

(* lines 1276-1293: the cleanup script is opened for writing whenever the  *)
(* rm node is made; only its chmod depends on newdag                       *)
RmScriptWrites(a, nd) == IF ~a.skip_rm THEN {"post-process-rm.sh"} ELSE {}

(* the files of the workflow the generation of the DAG writes: the         *)
(* post-processing scripts (1205-1222, unless --rescue), archive.sh and    *)
(* the trigger caches (1253-1265, --archive and newdag), the cleanup       *)
(* script, the DAG, its submit files and its script (1304-1318, newdag and *)
(* not --rescue)                                                           *)
CompileWrites(a, nd) ==
    (IF ~a.skip_postprocessing /\ ~a.rescue THEN {"post-process.sh"} ELSE {})
    \cup (IF a.archive /\ nd THEN {"archive.sh", "omicron.lcf"} ELSE {})
    \cup RmScriptWrites(a, nd)
    \cup (IF ~a.rescue /\ nd THEN {"omicron.dag", "omicron.sub"} ELSE {})

(* lines 977-1318: the DAG is generated *)
Compile ==
    /\ pc = "compile"
    /\ IF CompileRaises(args)
       THEN Raise("KeyError") /\ dag' = dag /\ files' = files
       ELSE /\ dag' = CompileDag(args, segs)
            /\ files' = files \cup CompileWrites(args, newdag)
            /\ pc' = IF args.no_submit THEN "nosubmit" ELSE "loop"
            /\ err' = err
    /\ UNCHANGED <<args, running, nrescue, newdag, segfile, start, end, datastart,
                   dataend, segs, cachesegs, alldata, span, i, nsubmit, stats,
                   writes, attempts, nst, trigsegs,
                   queries, nagios, restep, archived, cleaned>>

(* lines 1320-1325: --no-submit *)
NoSubmitExit ==
    /\ pc = "nosubmit"
    /\ IF newdag
       THEN /\ segfile' = write_segments(span)
            /\ writes' = Append(writes, <<"nosubmit", 0>>)
       ELSE UNCHANGED <<segfile, writes>>
    /\ pc' = "exit0"
    /\ UNCHANGED <<args, running, nrescue, newdag, start, end, datastart, dataend,
                   segs, cachesegs, alldata, span, dag, i, nsubmit, stats, err,
                   attempts, nst, trigsegs, files,
                   queries, nagios, restep, archived, cleaned>>

(* lines 1343-1361: condor.submit_dag returns the id of the DAG *)
SubmitDag ==
    /\ pc = "loop"
    /\ ~args.reattach
    /\ nsubmit' = nsubmit + 1
    /\ pc' = "submitted"
    /\ UNCHANGED <<args, running, nrescue, newdag, segfile, start, end, datastart,
                   dataend, segs, cachesegs, alldata, span, dag, i, stats, writes,
                   err, attempts, nst, trigsegs, files,
                   queries, nagios, restep, archived, cleaned>>

(* lines 1356-1360: condor.submit_dag raises *)
SubmitDagFails ==
    /\ pc = "loop"
    /\ ~args.reattach
    /\ Raise("submit_dag")
    /\ UNCHANGED <<args, running, nrescue, newdag, segfile, start, end, datastart,
                   dataend, segs, cachesegs, alldata, span, dag, i, nsubmit, stats,
                   writes, attempts, nst, trigsegs, files,
                   queries, nagios, restep, archived, cleaned>>

(* segments.txt is written after every submission *)
SegmentsWrittenEachTime(ii) == TRUE

(* segments.txt is written after the first resubmission instead *)
SegmentsWrittenLate(ii) == ii = 1

(* line 1364: segments.txt is written after the first submission only *)
SegmentsWrittenAt(ii) == ii = 0

(* lines 1362-1368: segments.txt is written, 'force' is dropped *)
RecordSegments ==
    /\ pc = "submitted"
    /\ IF SegmentsWrittenAt(i)
       THEN /\ segfile' = write_segments(span)
            /\ writes' = Append(writes, <<"submit", i>>)
       ELSE UNCHANGED <<segfile, writes>>
    /\ args' = IF Count(args.dagman_option, "force") > 0
               THEN [args EXCEPT !.dagman_option = Pop(@, IndexOf(@, "force"))]
               ELSE args
    /\ pc' = "monitor"
    /\ UNCHANGED <<running, nrescue, newdag, start, end, datastart, dataend, segs,
                   cachesegs, alldata, span, dag, i, nsubmit, stats, err, attempts,
                   nst, trigsegs, files,
                   queries, nagios, restep, archived, cleaned>>

(* lines 1338-1341: the id of the running DAG is looked up *)
FindJob ==
    /\ pc = "loop"
    /\ args.reattach
    /\ pc' = "monitor"
    /\ UNCHANGED <<args, running, nrescue, newdag, segfile, start, end, datastart,
                   dataend, segs, cachesegs, alldata, span, dag, i, nsubmit, stats,
                   writes, err, attempts, nst, trigsegs, files,
                   queries, nagios, restep, archived, cleaned>>

(* lines 1370-1386: condor_watch_q returns, or check_call raises *)
Monitor ==
    /\ pc = "monitor"
    /\ \E ok \in BOOLEAN :
        IF ok THEN pc' = "status" /\ err' = err
        ELSE Raise("CalledProcessError")
    /\ UNCHANGED <<args, running, nrescue, newdag, segfile, start, end, datastart,
                   dataend, segs, cachesegs, alldata, span, dag, i, nsubmit, stats,
                   writes, attempts, nst, trigsegs, files,
                   queries, nagios, restep, archived, cleaned>>

(* the test of the last iteration is off by one *)
LastIterationLate(a, ii) == ii = a.submit_rescue_dag + 1

(* line 1407: the last iteration of range(submit_rescue_dag + 1) *)
LastIteration(a, ii) == ii = a.submit_rescue_dag

(* a status without exit code counts as a failure *)
NonZeroOrUnknown(st) == st # "zero"

(* lines 1393-1400: the loop goes on only when the status holds an exit    *)
(* code and that code is not 0                                             *)
NonZeroExit(st) == st = "nonzero"

(* lines 1387-1412: the exit status of the DAG; a failure is followed by  *)
(* the next iteration of the loop, or by the error of the last iteration  *)
GetStatus ==
    /\ pc = "status"
    /\ \E st \in {"unknown", "zero", "nonzero"} :
        /\ stats' = Append(stats, st)
        /\ IF ~NonZeroExit(st)
           THEN /\ pc' = "archive" /\ err' = err
                /\ UNCHANGED <<i, attempts>>
           ELSE IF LastIteration(args, i)
           THEN /\ Raise("RuntimeError: DAG has failed")
                /\ attempts' = args.submit_rescue_dag + 1
                /\ i' = i
           ELSE /\ i' = i + 1
                /\ pc' = IF i + 1 < args.submit_rescue_dag + 1 THEN "loop" ELSE "archive"
                /\ err' = err /\ attempts' = attempts
    /\ UNCHANGED <<args, running, nrescue, newdag, segfile, start, end, datastart,
                   dataend, segs, cachesegs, alldata, span, dag, nsubmit, writes, nst, trigsegs, files,
                   queries, nagios, restep, archived, cleaned>>

(* lines 721, 914, 992: the files kept, in the order they are listed *)
keepfiles(nd) ==
    <<"segments.txt", "frames.lcf">> \o (IF nd THEN <<"parameters.txt">> ELSE <<>>)

(* lines 890, 979, 1202, 1272, 1293, 1415-1417, 1435: the files to delete *)
tempfiles(a) ==
    {"astropy", "omicron.out", "omicron.err", "ffconvert.ffl"}
    \cup (IF a.use_dev_shm THEN {"cached.gwf"} ELSE {})
    \cup (IF ~a.skip_postprocessing THEN {"post-process.sh"} ELSE {})
    \cup (IF a.archive THEN {"archive.sh"} ELSE {})
    \cup (IF ~a.skip_rm THEN {"post-process-rm.sh"} ELSE {})

(* every file is moved to the log directory *)
ArchiveMoves(f) == "move"

(* lines 1428-1431: segments.txt is copied, any other file is renamed *)
ArchiveHow(f) == IF f = "segments.txt" THEN "copy" ELSE "move"

(* lines 1414-1439: the log of the DAG and the files kept are archived,    *)
(* the temporary files are removed; copying segments.txt raises if the     *)
(* file does not exist                                                     *)
Finish ==
    /\ pc = "archive"
    /\ IF segfile = <<>>
       THEN /\ Raise("FileNotFoundError")
            /\ archived' = { <<"omicron.dag.dagman.out", ArchiveHow("omicron.dag.dagman.out")>> }
            /\ UNCHANGED <<segfile, cleaned>>
       ELSE /\ archived' = { <<f, ArchiveHow(f)>> :
                               f \in {"omicron.dag.dagman.out"} \cup Range(keepfiles(newdag)) }
            /\ cleaned' = tempfiles(args)
            /\ segfile' = IF \/ <<"segments.txt", "move">> \in archived'
                             \/ "segments.txt" \in cleaned'
                          THEN <<>>
                          ELSE segfile
            /\ pc' = "done" /\ err' = err
    /\ UNCHANGED <<args, running, nrescue, newdag, start, end, datastart,
                   dataend, segs, cachesegs, alldata, span, dag, i, nsubmit, stats,
                   writes, attempts, nst, trigsegs, files,
                   queries, nagios, restep>>

Next ==
    \/ ParseArgs
    \/ CheckExisting
    \/ FindRunSegment
    \/ FindSegments
    \/ FindFrames
    \/ Compile
    \/ NoSubmitExit
    \/ SubmitDag
    \/ SubmitDagFails
    \/ RecordSegments
    \/ FindJob
    \/ Monitor
    \/ GetStatus
    \/ Finish

Spec == Init /\ [][Next]_vars

(* the run goes on to its end once the loop has stopped: main() is one     *)
(* sequential process, and nothing waits between the loop and the archival *)
SpecLive == Init /\ [][Next]_vars /\ WF_vars(Finish)

Terminal == pc \in {"done", "exit0", "raised"}

-----------------------------------------------------------------------------
(* SpecSeg: the segment engine (lines 840-970), and the resolvable         *)
(* segments of omicron-status, applied to the segments a state query       *)
(* returned for a data span that holds a metric-day boundary               *)

(* the metric day of lines 925-936: int(t / 1e5) *)
MetricDay == 100000

(* durations of the data span [datastart, dataend) *)
SegSpanDurs == {248, 250, 370, 410}

SegSpans == { <<MetricDay - 100, MetricDay - 100 + d>> : d \in SegSpanDurs }

(* the end points of the state segments, from either end of the data span *)
SegOffs == {0, 1, 37, 40, 100}

SegPts(ds, de) == {ds + o : o \in SegOffs} \cup {de - o : o \in SegOffs}

(* the state after line 838: the span is set, the state segments are known *)
SegInit ==
    /\ pc = "truncate"
    /\ \E sp \in SegSpans, o \in BOOLEAN, m \in {"", "rescue", "reattach"} :
        /\ datastart = sp[1] /\ dataend = sp[2]
        /\ start = sp[1] + padding /\ end = sp[2] - padding
        /\ args = [DefaultArgs EXCEPT !.online = o,
                                      !.gps = IF o THEN <<0, 0>> ELSE <<start, end>>,
                                      !.rescue = (m = "rescue"),
                                      !.reattach = (m = "reattach"),
                                      !.dagman_option = IF m = "rescue" THEN <<>>
                                                        ELSE <<"force">>]
        /\ running = (m = "reattach")
        /\ newdag = NewDag(args, args.reattach)
        /\ nrescue = IF m = "rescue" THEN 1 ELSE 0
        /\ segfile = IF o /\ m # "" THEN << <<start, end>> >>
                     ELSE IF o THEN << <<start - 100, start>> >>
                     ELSE <<>>
        /\ segs \in SegLists(SegPts(sp[1], sp[2]))
    /\ cachesegs = <<>> /\ alldata = FALSE /\ span = <<>>
    /\ dag = <<>> /\ i = 0 /\ nsubmit = 0 /\ stats = <<>> /\ writes = <<>>
    /\ err = "" /\ attempts = 0 /\ nst = <<>> /\ trigsegs = <<>> /\ files = {}
    /\ queries = <<>> /\ nagios = <<>> /\ restep = <<>>
    /\ archived = {} /\ cleaned = {}

(* lines 840-879: the truncation of the last state segment *)
TruncateSegments ==
    /\ pc = "truncate"
    /\ segs' = TruncatedSegs(segs, dataend)
    /\ dataend' = TruncatedEnd(segs, dataend)
    /\ pc' = "frames"
    /\ UNCHANGED <<args, running, nrescue, newdag, segfile, start, end, datastart,
                   cachesegs, alldata, span, dag, i, nsubmit, stats, writes, err,
                   attempts, nst, trigsegs, files,
                   queries, nagios, restep, archived, cleaned>>

(* every segment is contracted, whatever its duration *)
ResolvableContractAll(sl) == Contract(sl, padding)

(* omicron-status, status.py 500-507: a segment no longer than twice the   *)
(* padding is deleted, any other is contracted by the padding              *)
ResolvableSegments(sl) ==
    LET kept == SelectSeq(sl, LAMBDA seg : ~(SegAbs(seg) <= padding * 2))
    IN [k \in DOMAIN kept |-> Segment(kept[k][1] + padding, kept[k][2] - padding)]

(* status.py 494-508: omicron-status works out the resolvable segments of  *)
(* the frame and state segments it found                                   *)
StatusSegments ==
    /\ pc = "truncate"
    /\ end' = IF segs # <<>> THEN Last(segs)[2] ELSE end
    /\ segs' = ResolvableSegments(segs)
    /\ pc' = "resolved"
    /\ UNCHANGED <<args, running, nrescue, newdag, segfile, start, datastart,
                   dataend, cachesegs, alldata, span, dag, i, nsubmit, stats,
                   writes, err, attempts, nst, trigsegs, files,
                   queries, nagios, restep, archived, cleaned>>

SegNext ==
    \/ TruncateSegments
    \/ FindFrames
    \/ StatusSegments

SpecSeg == SegInit /\ [][SegNext]_vars

-----------------------------------------------------------------------------
(* SpecStatus: the condor check of omicron-status (status.py 379-442): the *)
(* query of the manager job, its one retry, the query of the node jobs     *)

MaxJobs == 2            \* jobs returned by one schedd.query

(* condor.JOB_STATUS: three of the states are OK (status.py 384) *)
JobStatuses == {"Running", "Idle", "Completed", "Held"}

okstates == {"Running", "Idle", "Completed"}

(* what schedd.query does: it returns the JobStatus of each job found, or  *)
(* it raises IOError                                                       *)
QueryResults ==
    { [error |-> "IOError", jobs |-> <<>>] }
        \cup { [error |-> "", jobs |-> j] :
                  j \in UNION { [1..n -> JobStatuses] : n \in 0..MaxJobs } }

StatusInit ==
    /\ pc = "condor"
    /\ args = DefaultArgs
    /\ running = FALSE /\ nrescue = 0 /\ newdag = FALSE
    /\ segfile = <<>> /\ start = 0 /\ end = 0 /\ datastart = 0 /\ dataend = 0
    /\ segs = <<>> /\ cachesegs = <<>> /\ alldata = FALSE /\ span = <<>>
    /\ dag = <<>> /\ i = 0 /\ nsubmit = 0 /\ stats = <<>> /\ writes = <<>>
    /\ err = "" /\ attempts = 0 /\ nst = <<>> /\ trigsegs = <<>> /\ files = {}
    /\ queries = <<>> /\ nagios = <<>> /\ restep = <<>>
    /\ archived = {} /\ cleaned = {}

(* status.py 400-411: the manager job is not alone, or not in an OK state: *)
(* RuntimeError, caught at 428, code 2 is written                          *)
ManagerBad(jobs) == Len(jobs) # 1 \/ jobs[1] \notin okstates

(* status.py 397-411 and 428-433: what follows the answer to the query of  *)
(* the manager job                                                         *)
CheckManager(r) ==
    IF r.error = "IOError"
    THEN pc' = "checked" /\ err' = "IOError" /\ nagios' = nagios
    ELSE IF ManagerBad(r.jobs)
    THEN pc' = "checked" /\ err' = "RuntimeError" /\ nagios' = Append(nagios, 2)
    ELSE pc' = "nodes" /\ err' = err /\ nagios' = nagios

(* status.py 391-393: the first query of the manager job; an IOError is    *)
(* caught at 393                                                           *)
QueryManager ==
    /\ pc = "condor"
    /\ \E r \in QueryResults :
        /\ queries' = Append(queries, [query |-> "manager", result |-> r])
        /\ IF r.error = "IOError"
           THEN pc' = "retry" /\ err' = err /\ nagios' = nagios
           ELSE CheckManager(r)
    /\ UNCHANGED <<args, running, nrescue, newdag, segfile, start, end, datastart,
                   dataend, segs, cachesegs, alldata, span, dag, i, nsubmit, stats,
                   writes, attempts, nst, trigsegs, files, restep, archived,
                   cleaned>>

(* status.py 394-396: sleep(2), then the query once more, outside any      *)
(* inner handler                                                           *)
RetryManager ==
    /\ pc = "retry"
    /\ \E r \in QueryResults :
        /\ queries' = Append(queries, [query |-> "manager", result |-> r])
        /\ CheckManager(r)
    /\ UNCHANGED <<args, running, nrescue, newdag, segfile, start, end, datastart,
                   dataend, segs, cachesegs, alldata, span, dag, i, nsubmit, stats,
                   writes, attempts, nst, trigsegs, files, restep, archived,
                   cleaned>>

(* status.py 413-442: the query of the node jobs, made once *)
QueryNodes ==
    /\ pc = "nodes"
    /\ \E r \in QueryResults :
        /\ queries' = Append(queries, [query |-> "node", result |-> r])
        /\ pc' = "checked"
        /\ IF r.error = "IOError"
           THEN err' = "IOError" /\ nagios' = nagios
           ELSE IF \E k \in DOMAIN r.jobs : r.jobs[k] \notin okstates
           THEN err' = "RuntimeError" /\ nagios' = Append(nagios, 2)
           ELSE err' = err /\ nagios' = Append(nagios, 0)
    /\ UNCHANGED <<args, running, nrescue, newdag, segfile, start, end, datastart,
                   dataend, segs, cachesegs, alldata, span, dag, i, nsubmit, stats,
                   writes, attempts, nst, trigsegs, files, restep, archived,
                   cleaned>>

StatusNext == QueryManager \/ RetryManager \/ QueryNodes

SpecStatus == StatusInit /\ [][StatusNext]_vars

-----------------------------------------------------------------------------
(* SpecRestep: the loop that truncates the last segment to a whole number  *)
(* of chunks, for the chunk and overlap durations of any configuration     *)

MaxChunk == 4
MaxSegLen == 14

(* chunk-duration and overlap-duration (567-573), the last segment is at   *)
(* least two chunks long (849)                                             *)
RestepInputs ==
    { r \in [chunk : 2..MaxChunk, overlap : 0..MaxChunk, s : {0, 7},
             len : 1..MaxSegLen] :
        r.overlap < r.chunk /\ r.len >= 2 * r.chunk }

(* the loop goes on while t has not passed e *)
WhileNotPast(r) == r.t <= r.e

(* line 871: while t + chunkdur <= e *)
While(r) == r.t + r.chunk <= r.e

(* line 873: step = chunkdur - overlap *)
StepAfter(step, chunk, ov) == chunk - ov

(* lines 867-870: t, e = lastseg; e -= chunkdur + padding; step = chunkdur *)
RestepInit ==
    /\ pc = "restep"
    /\ \E r \in RestepInputs :
        restep = [t |-> r.s, s |-> r.s,
                  e |-> r.s + r.len - (r.chunk + r.overlap \div 2),
                  step |-> r.chunk, chunk |-> r.chunk, overlap |-> r.overlap,
                  n |-> 0]
    /\ args = DefaultArgs
    /\ running = FALSE /\ nrescue = 0 /\ newdag = FALSE
    /\ segfile = <<>> /\ start = 0 /\ end = 0 /\ datastart = 0 /\ dataend = 0
    /\ segs = <<>> /\ cachesegs = <<>> /\ alldata = FALSE /\ span = <<>>
    /\ dag = <<>> /\ i = 0 /\ nsubmit = 0 /\ stats = <<>> /\ writes = <<>>
    /\ err = "" /\ attempts = 0 /\ nst = <<>> /\ trigsegs = <<>> /\ files = {}
    /\ queries = <<>> /\ nagios = <<>>
    /\ archived = {} /\ cleaned = {}

(* lines 871-873: one iteration of the loop *)
RestepStep ==
    /\ pc = "restep"
    /\ While(restep)
    /\ restep' = [restep EXCEPT !.t = restep.t + restep.step,
                                !.step = StepAfter(restep.step, restep.chunk,
                                                   restep.overlap),
                                !.n = restep.n + 1]
    /\ UNCHANGED <<pc, args, running, nrescue, newdag, segfile, start, end,
                   datastart, dataend, segs, cachesegs, alldata, span, dag, i,
                   nsubmit, stats, writes, err, attempts, nst, trigsegs, files,
                   queries, nagios, archived, cleaned>>

(* lines 871, 874-875: the condition of the loop fails, the last segment   *)
(* and dataend end at t                                                    *)
RestepExit ==
    /\ pc = "restep"
    /\ ~While(restep)
    /\ pc' = "truncated"
    /\ dataend' = restep.t
    /\ UNCHANGED <<args, running, nrescue, newdag, segfile, start, end,
                   datastart, segs, cachesegs, alldata, span, dag, i,
                   nsubmit, stats, writes, err, attempts, nst, trigsegs, files,
                   queries, nagios, restep, archived, cleaned>>

RestepNext == RestepStep \/ RestepExit

(* the interpreter runs the statements of the loop one after the other *)
SpecRestep ==
    RestepInit /\ [][RestepNext]_vars /\ WF_vars(RestepStep) /\ WF_vars(RestepExit)

-----------------------------------------------------------------------------
(* Properties of a run (Spec) *)

AllFailed == \A k \in DOMAIN stats : stats[k] = "nonzero"

DagFailed == pc = "raised" /\ err = "RuntimeError: DAG has failed"

(* the span [datastart, dataend) is wholly covered by the frames found *)
Covered == cachesegs = << <<datastart, dataend>> >>

(* C1: in a fresh run in which every DAG exits with a non-zero code, the   *)
(* driver submits submit_rescue_dag + 1 times, never more, and then fails  *)
(* reporting submit_rescue_dag + 1 attempts; until then it goes on         *)
C1_BoundedRescueLoop ==
    (newdag /\ AllFailed) =>
        /\ nsubmit <= args.submit_rescue_dag + 1
        /\ Len(stats) <= args.submit_rescue_dag + 1
        /\ Len(stats) = args.submit_rescue_dag + 1 =>
              /\ DagFailed
              /\ attempts = args.submit_rescue_dag + 1
              /\ nsubmit = args.submit_rescue_dag + 1
        /\ DagFailed => Len(stats) = args.submit_rescue_dag + 1
        /\ (stats # <<>> /\ Len(stats) < args.submit_rescue_dag + 1) =>
              /\ pc \in {"loop", "submitted", "monitor", "status", "raised"}
              /\ pc = "raised" => err \in {"submit_dag", "CalledProcessError"}
              /\ pc = "loop" => nsubmit = Len(stats)

C1_Witness ==
    /\ newdag /\ args.submit_rescue_dag = 2
    /\ stats = <<"nonzero", "nonzero", "nonzero">>
    /\ DagFailed /\ attempts = 3 /\ nsubmit = 3

(* C2, as claimed: as long as no submission has succeeded, no step of the  *)
(* run changes segments.txt                                                *)
C2_UnchangedBeforeSubmission ==
    [][nsubmit' = 0 => segfile' = segfile]_vars

(* C2, amended: before a submission has succeeded, segments.txt is written *)
(* by two exits only: the exit of an online fresh run that found no        *)
(* segment to analyse while the frames reach the end of the data span, and *)
(* the --no-submit exit of a fresh run                                     *)
C2_WrittenBeforeSubmissionOnlyAtExits ==
    [][(nsubmit' = 0 /\ (segfile' # segfile \/ writes' # writes)) =>
          /\ pc' = "exit0"
          /\ newdag
          /\ \/ /\ pc = "frames" /\ args.online /\ segs' = <<>> /\ alldata'
                /\ cachesegs' # <<>> /\ Last(cachesegs')[2] = dataend
                /\ segfile' = cachesegs'
             \/ /\ pc = "nosubmit" /\ args.no_submit /\ segfile' = span]_vars

C2_Witness ==
    /\ pc = "raised" /\ err = "submit_dag"
    /\ nsubmit = 0 /\ writes = <<>>
    /\ span # <<>> /\ segfile # span

(* C3: once a submission has returned, segments.txt holds the span of the  *)
(* run before the DAG is monitored, whatever the DAG does afterwards       *)
C3_WrittenRightAfterSubmission ==
    (nsubmit >= 1 /\ ~(pc = "submitted" /\ i = 0)) =>
        /\ writes = << <<"submit", 0>> >>
        /\ segfile = span

C3_Witness ==
    /\ DagFailed
    /\ Len(stats) = 1
    /\ writes = << <<"submit", 0>> >>
    /\ segfile = span

(* an online fresh run found at least one segment to analyse (line 970) *)
Eligible == span # <<>>

OnlineFresh == args.online /\ newdag

C5_CatchUpOnlyWhenCovered ==
    (OnlineFresh /\ Terminal /\ ~Eligible /\ nsubmit = 0) =>
        /\ writes # <<>> => Covered
        /\ (pc = "exit0" /\ ~Covered) => writes = <<>>

-----------------------------------------------------------------------------
(* Properties of the compiled DAG and of its execution (SpecDag) *)

Primaries == SortedSeq(Positions(dag, "omicron"))

PostNodes == Positions(dag, "post-processing")

(* the wave of the r-th omicron node, in creation order: 0, 1, 2, ... *)
Wave(r) == (r - 1) \div args.max_concurrent

NJobfiles == Len(write_distributed(args.nchannels, args.max_channels_per_job))

(* C6: the omicron nodes, in creation order, are cut into waves of         *)
(* max_concurrent nodes; the parents of a node of wave k+1 are exactly the *)
(* nodes of wave k, and the nodes of the first wave have no parents        *)
C6_LadderStructure ==
    pc = "exec" =>
        \A k \in 1..Len(Primaries) :
            Range(dag[Primaries[k]].parents) =
                { Primaries[r] : r \in { q \in 1..Len(Primaries) : Wave(q) + 1 = Wave(k) } }

C6_Witness ==
    /\ pc = "exec"
    /\ args.max_concurrent >= 2
    /\ Len(Primaries) > 2 * args.max_concurrent
    /\ Len(Primaries) % args.max_concurrent # 0

(* C7: in every execution that starts a node only after its parents are   *)
(* done, at most max_concurrent omicron nodes run at the same time, and no *)
(* node of wave k+1 has started before every node of wave k is done        *)
C7_BoundedConcurrency ==
    pc = "exec" =>
        /\ Cardinality({ n \in Positions(dag, "omicron") : nst[n] = "running" })
              <= args.max_concurrent
        /\ \A k, r \in 1..Len(Primaries) :
              (Wave(k) = Wave(r) + 1 /\ nst[Primaries[k]] # "idle")
                  => nst[Primaries[r]] = "done"

C7_Witness ==
    /\ pc = "exec"
    /\ args.max_concurrent >= 2
    /\ Len(Primaries) > 2 * args.max_concurrent
    /\ Cardinality({ n \in Positions(dag, "omicron") : nst[n] = "running" })
          = args.max_concurrent
    /\ \E k \in 1..Len(Primaries) : Wave(k) = 2 /\ nst[Primaries[k]] = "running"

(* C8: every parent of a node was created before the node, for the edges  *)
(* of the ladder, of the post-processing, archive and rm nodes alike       *)
C8_ParentsCreatedFirst ==
    pc = "exec" =>
        \A n \in DOMAIN dag : \A p \in Range(dag[n].parents) :
            p \in DOMAIN dag /\ p < n

C8_Witness ==
    /\ pc = "exec"
    /\ args.archive /\ ~args.skip_rm
    /\ Cardinality(PostNodes) >= 2
    /\ Len(Primaries) > args.max_concurrent
    /\ \E n \in Positions(dag, "post-processing-rm") : dag[n].parents # <<>>
    /\ \E n \in Positions(dag, "archive") : Len(dag[n].parents) >= 2
    /\ \E n \in Positions(dag, "omicron") : dag[n].parents # <<>>

C10_ArchiveAfterPostProcessing ==
    (pc = "exec" /\ args.archive) =>
        /\ Cardinality(Positions(dag, "archive")) = 1
        /\ \A n \in Positions(dag, "archive") :
              /\ Range(dag[n].parents) = PostNodes
              /\ nst[n] # "idle" => \A p \in PostNodes : nst[p] = "done"

C10_Witness ==
    /\ pc = "exec" /\ args.archive
    /\ Cardinality(PostNodes) >= 2
    /\ Len(Primaries) >= 2
    /\ \E n \in Positions(dag, "archive") : nst[n] = "running"

RmNodes == Positions(dag, "post-processing-rm")

(* the files the rm script may have removed: every file of rmfiles as soon *)
(* as the rm node has started                                              *)
Removed ==
    IF \E n \in RmNodes : nst[n] # "idle" THEN RmFiles(args, dag) ELSE {}

(* C11: when the rm node is not skipped there is one, its parents are      *)
(* exactly the archive node with archiving and exactly the post-processing *)
(* nodes without, and no file of rmfiles is removed before every           *)
(* post-processing node that has it as an input file is done               *)
C11_CleanupAfterPostProcessing ==
    (pc = "exec" /\ ~args.skip_rm) =>
        /\ Cardinality(RmNodes) = 1
        /\ \A n \in RmNodes :
              Range(dag[n].parents) =
                  IF args.archive THEN Positions(dag, "archive") ELSE PostNodes
        /\ args.archive => Cardinality(Positions(dag, "archive")) = 1
        /\ \A f \in Removed : \A p \in PostNodes :
              f \in InputFiles(args, dag[p]) => nst[p] = "done"

C11_Witness ==
    /\ pc = "exec" /\ ~args.skip_rm /\ ~args.archive
    /\ Cardinality(PostNodes) >= 2
    /\ \E n \in RmNodes : nst[n] = "running"
    /\ Removed # {}
    /\ \E p \in PostNodes : InputFiles(args, dag[p]) \ Removed # {}

-----------------------------------------------------------------------------
(* Properties of the mode of a run (Spec) *)

(* C12: a run that detects a running DAG without --reattach raises at      *)
(* once: no DAG has been built, nothing has been submitted, segments.txt   *)
(* is as it was; with --reattach the run goes on, still reattaching        *)
C12_RunningDagRefused ==
    /\ [](err = "RuntimeError: already running" =>
            /\ pc = "raised" /\ running /\ ~args.reattach
            /\ dag = <<>> /\ nsubmit = 0 /\ writes = <<>> /\ span = <<>>)
    /\ [][pc = "check" =>
            /\ (running' /\ ~args.reattach) =>
                  /\ pc' = "raised" /\ err' = "RuntimeError: already running"
                  /\ segfile' = segfile
            /\ (running' /\ args.reattach) =>
                  /\ pc' = "span" /\ err' = "" /\ args'.reattach]_vars

C12_Witness ==
    /\ pc = "raised" /\ err = "RuntimeError: already running"
    /\ running /\ ~args.reattach /\ ~args.rescue
    /\ segfile # <<>> /\ nrescue = 1

(* the mode of the run has been resolved: line 716 has been passed *)
Resolved ==
    /\ pc \notin {"start", "check"}
    /\ ~(pc = "raised" /\ err \in {"parser.error", "RuntimeError: already running",
                                   "RuntimeError: no rescue DAG",
                                   "RuntimeError: rescue DAGs found"})

(* C13: once the mode is resolved exactly one of newdag, rescue, reattach  *)
(* holds; reattach holds only with a running DAG, rescue never with one,   *)
(* and --reattach without a running DAG has become a fresh run             *)
C13_ExactlyOneMode ==
    /\ [](Resolved =>
            /\ Cardinality({ m \in {"newdag", "rescue", "reattach"} :
                               \/ m = "newdag" /\ newdag
                               \/ m = "rescue" /\ args.rescue
                               \/ m = "reattach" /\ args.reattach }) = 1
            /\ args.reattach => running
            /\ args.rescue => ~running)
    /\ [][(pc = "check" /\ args.reattach /\ ~running') =>
            (pc' = "span" /\ newdag' /\ ~args'.reattach /\ ~args'.rescue)]_vars

C13_Witness ==
    /\ pc = "loop" /\ Resolved
    /\ args.reattach /\ running /\ ~newdag /\ ~args.rescue
    /\ nrescue = 1

(* C14: a --rescue run that finds no rescue DAG file raises, and so does a *)
(* run without --rescue that finds one and has no 'force' among its dagman *)
(* options; nothing has been built or submitted when either error is      *)
(* raised                                                                  *)
C14_RescuePreconditions ==
    /\ [](err \in {"RuntimeError: no rescue DAG", "RuntimeError: rescue DAGs found"} =>
            /\ pc = "raised"
            /\ dag = <<>> /\ nsubmit = 0 /\ writes = <<>>)
    /\ [][pc = "check" =>
            /\ (args.rescue /\ nrescue' = 0) =>
                  /\ pc' = "raised" /\ nsubmit' = 0
                  /\ err' \in {"RuntimeError: no rescue DAG",
                               "RuntimeError: already running"}
            /\ (~args.rescue /\ nrescue' > 0
                  /\ Count(args.dagman_option, "force") = 0) =>
                  /\ pc' = "raised" /\ nsubmit' = 0
                  /\ err' \in {"RuntimeError: rescue DAGs found",
                               "RuntimeError: already running"}]_vars

C14_Witness ==
    /\ pc = "raised" /\ err = "RuntimeError: no rescue DAG"
    /\ args.rescue /\ nrescue = 0 /\ ~running
    /\ dag = <<>> /\ nsubmit = 0 /\ writes = <<>>

(* C15, as claimed: in every mode, an iteration of the loop that follows a *)
(* failed DAG has submitted the DAG again before it monitors it: in the    *)
(* iteration of index i >= 1 the DAG has been submitted once per iteration *)
(* (the first iteration of a reattaching run excepted)                     *)
C15_FailureIsResubmitted ==
    (pc \in {"monitor", "status"} /\ i >= 1) =>
        /\ AllFailed /\ Len(stats) = i
        /\ nsubmit = IF args.reattach THEN i ELSE i + 1

-----------------------------------------------------------------------------
(* Properties of the compilation (SpecDag), continued *)

(* the same command line run as a fresh run, with --rescue, with --reattach *)
ModeVariants(a) ==
    { [a EXCEPT !.rescue = m[1], !.reattach = m[2]] :
        m \in {<<FALSE, FALSE>>, <<TRUE, FALSE>>, <<FALSE, TRUE>>} }

(* the number of nodes, the nodes in order, the parent edges *)
Topology(d) ==
    << Len(d),
       [n \in DOMAIN d |-> <<d[n].job, d[n].category, d[n].seg, d[n].pfile, d[n].subseg>>],
       { e \in (DOMAIN d) \X (DOMAIN d) : e[1] \in Range(d[e[2]].parents) } >>

-----------------------------------------------------------------------------
(* Properties of the segment engine (SpecSeg) *)

(* the last state segment ends at the end of the data span of an online    *)
(* fresh run (line 846); omicron-process then steps to pc = "frames"       *)
TouchesEnd ==
    /\ pc = "truncate" /\ args.online /\ newdag
    /\ segs # <<>> /\ Last(segs)[2] = dataend

(* C17: when the last state segment of an online fresh run ends at dataend *)
(* and is shorter than two chunks, it is removed, the other segments stay  *)
(* as they are and dataend becomes the start of the removed segment        *)
C17_ShortLastSegmentDropped ==
    [][(TouchesEnd /\ pc' = "frames" /\ SegAbs(Last(segs)) < 2 * chunkdur) =>
          /\ segs' = Front(segs)
          /\ dataend' = Last(segs)[1]
          /\ datastart' = datastart]_vars

C17_Witness ==
    /\ pc = "frames" /\ args.online /\ newdag
    /\ Len(segs) = 1
    /\ Last(segs)[2] < dataend
    /\ dataend < end + padding
    /\ end + padding - dataend < 2 * chunkdur

(* C18, as claimed: when the last state segment [s, e0) of an online fresh *)
(* run ends at dataend and lasts two chunks or more, it becomes [s, t)     *)
(* with t - s = chunkdur + k * (chunkdur - overlap) for some k >= 0,       *)
(* t <= e0 - (chunkdur + padding), no room for one more stepped chunk      *)
(* before e0 - (chunkdur + padding), and t - s < e0 - s                    *)
C18_LastSegmentShortened ==
    [][(TouchesEnd /\ pc' = "frames" /\ SegAbs(Last(segs)) >= 2 * chunkdur) =>
          LET s == Last(segs)[1]
              e0 == Last(segs)[2]
              t == Last(segs')[2]
          IN /\ Len(segs') = Len(segs)
             /\ Front(segs') = Front(segs)
             /\ Last(segs')[1] = s
             /\ \E k \in 0..(e0 - s) : t - s = chunkdur + k * (chunkdur - overlap)
             /\ t <= e0 - (chunkdur + padding)
             /\ t + (chunkdur - overlap) > e0 - (chunkdur + padding)
             /\ t - s < e0 - s
             /\ dataend' = t]_vars

(* out holds [s + padding, e - padding) for each segment [s, e) of in that *)
(* is longer than twice the padding, and nothing else                      *)
ContractedBy(in, out) ==
    /\ \A seg \in Range(in) :
          SegAbs(seg) > 2 * padding =>
              \E t \in Range(out) :
                  /\ t = <<seg[1] + padding, seg[2] - padding>>
                  /\ SegAbs(t) = SegAbs(seg) - 2 * padding
    /\ \A t \in Range(out) :
          \E seg \in Range(in) :
              /\ SegAbs(seg) > 2 * padding
              /\ t = <<seg[1] + padding, seg[2] - padding>>
    /\ Len(out) = Cardinality({ k \in DOMAIN in : SegAbs(in[k]) > 2 * padding })

C20_SplitAtMetricDay ==
    pc = "compile" =>
        \A seg \in Range(segs) :
            \A b \in (seg[1] + 1)..(seg[2] - 1) : b % MetricDay # 0

-----------------------------------------------------------------------------
(* Properties of the span and of the exits of a run (Spec) *)

(* the data span [start - padding, end + padding) of the run is shorter    *)
(* than one chunk                                                          *)
ShortSpan == (end + padding) - (start - padding) < chunkdur

(* C21: when the data span is shorter than one chunk an online run exits   *)
(* with status 0 having queried no segment, built no DAG, submitted        *)
(* nothing and left segments.txt alone, and an offline run raises; when it *)
(* is not shorter the run goes on to the segment queries                   *)
C21_MinimumSpan ==
    /\ []((pc \notin {"start", "check", "span"} /\ datastart # dataend /\ ShortSpan) =>
            /\ segs = <<>> /\ cachesegs = <<>> /\ dag = <<>>
            /\ nsubmit = 0 /\ writes = <<>>
            /\ IF args.online THEN pc = "exit0" /\ err = ""
               ELSE pc = "raised" /\ err = "ValueError: too short")
    /\ [][(pc = "span" /\ err' # "IOError") =>
            /\ datastart' = start' - padding /\ dataend' = end' + padding
            /\ segfile' = segfile
            /\ IF dataend' - datastart' < chunkdur
               THEN IF args.online THEN pc' = "exit0" /\ err' = ""
                    ELSE pc' = "raised" /\ err' = "ValueError: too short"
               ELSE pc' = "segments" /\ err' = ""]_vars

C21_Witness ==
    /\ pc = "exit0" /\ args.online /\ ShortSpan
    /\ datastart = start - padding /\ dataend = end + padding
    /\ dataend - datastart > 0
    /\ segfile # <<>> /\ writes = <<>> /\ dag = <<>> /\ nsubmit = 0

-----------------------------------------------------------------------------
(* Properties of the compilation (SpecDag): the omicron nodes *)

(* the sub-spans of the omicron nodes of a segment and a parameter file,   *)
(* in the order of the nodes in the DAG                                    *)
SubSpans(seg, g) ==
    LET ns == SortedSeq({ n \in Positions(dag, "omicron") :
                            dag[n].seg = seg /\ dag[n].pfile = g })
    IN [k \in DOMAIN ns |-> dag[ns[k]].subseg]

(* C23: the omicron nodes of a segment take consecutive sub-spans that     *)
(* cover the segment, each of max_chunks_per_job chunks but the last,      *)
(* which may be shorter and is not empty; a segment of ten chunks with     *)
(* max_chunks_per_job = 4 gives three nodes of 4, 4 and 2 chunks           *)
C23_JobPartition ==
    (pc = "exec" /\ ~args.skip_omicron /\ \A n \in DOMAIN nst : nst[n] = "idle") =>
        \A sk \in DOMAIN segs : \A g \in 1..NJobfiles :
            LET sub == SubSpans(segs[sk], g)
                M == args.max_chunks_per_job * chunkdur
            IN /\ Len(sub) >= 1
               /\ sub[1][1] = segs[sk][1]
               /\ sub[Len(sub)][2] = segs[sk][2]
               /\ \A k \in 1..(Len(sub) - 1) :
                     /\ sub[k][2] = sub[k + 1][1]
                     /\ SegAbs(sub[k]) = M
               /\ SegAbs(sub[Len(sub)]) > 0
               /\ SegAbs(sub[Len(sub)]) <= M
               /\ (SegAbs(segs[sk]) = 10 * chunkdur /\ args.max_chunks_per_job = 4) =>
                     [k \in DOMAIN sub |-> SegAbs(sub[k])]
                         = <<4 * chunkdur, 4 * chunkdur, 2 * chunkdur>>

C23_Witness ==
    /\ pc = "exec" /\ ~args.skip_omicron
    /\ args.max_chunks_per_job = 4
    /\ \E sk \in DOMAIN segs :
          /\ SegAbs(segs[sk]) = 10 * chunkdur
          /\ Len(SubSpans(segs[sk], 1)) = 3
    /\ \E sk \in DOMAIN segs : SegAbs(segs[sk]) = 300

-----------------------------------------------------------------------------
(* Properties of the execution of a DAG whose jobs may fail (SpecFail) *)

(* the job of the node has ended, well or not *)
Terminated(n) == nst[n] \in {"done", "swallowed", "failed"}

(* no omicron node has failed, and a post-processing node or an omicron    *)
(* node whose parents have all ended has started or can start              *)
NeverHeldBack ==
    pc = "exec" =>
        /\ \A n \in Positions(dag, "omicron") : nst[n] # "failed"
        /\ \A n \in PostNodes \cup Positions(dag, "omicron") :
              (\A p \in Range(dag[n].parents) : Terminated(p)) =>
                  (nst[n] # "idle" \/ CanStart(n))

AllPostStarted == pc = "exec" /\ \A n \in PostNodes : nst[n] # "idle"

(* C24: the failure of the job of an omicron node never fails the node, so *)
(* a post-processing node, and an omicron node of the next wave, can start *)
(* as soon as the jobs of all its parents among the omicron nodes have     *)
(* ended, whatever their exit codes, and every post-processing node does   *)
(* start in the end                                                        *)
C24_BestEffortPrimaries == []NeverHeldBack /\ <>AllPostStarted

C24_Witness ==
    /\ pc = "exec"
    /\ args.max_concurrent = 1
    /\ \E n \in Positions(dag, "omicron") :
          /\ nst[n] = "swallowed"
          /\ \E c \in Positions(dag, "omicron") :
                n \in Range(dag[c].parents) /\ nst[c] = "running"
    /\ \A n \in PostNodes : nst[n] = "idle"

-----------------------------------------------------------------------------
(* The files written before the submission (Spec) *)

(* C25: a run in rescue mode writes or overwrites none of the files of the *)
(* workflow (the DAG, the submit files, the post-processing scripts, the   *)
(* cleanup script, the archive script, the frame cache)                    *)
C25_RescueWritesNothing == args.rescue => files = {}

-----------------------------------------------------------------------------
(* The segments the DAG is generated from (Spec) *)

(* the segments of the omicron and post-processing nodes *)
NodeSegs == { dag[n].seg : n \in Positions(dag, "omicron") \cup PostNodes }

(* C26: once the minimum duration has been applied, every segment of segs  *)
(* lasts at least segdur seconds, and the omicron and post-processing      *)
(* nodes are made for these segments only                                  *)
C26_MinimumSegmentDuration ==
    (pc = "compile" \/ dag # <<>>) =>
        /\ \A k \in DOMAIN segs : SegAbs(segs[k]) >= segdur
        /\ \A s \in NodeSegs : SegAbs(s) >= segdur /\ s \in Range(segs)

(* a DAG was generated although the data found hold a stretch shorter than *)
(* segdur, which has no node                                               *)
C26_Witness ==
    /\ pc = "loop" /\ NodeSegs # {}
    /\ \E k \in DOMAIN cachesegs :
          /\ SegAbs(cachesegs[k]) < segdur
          /\ \A s \in NodeSegs : s[2] <= cachesegs[k][1] \/ cachesegs[k][2] <= s[1]

-----------------------------------------------------------------------------
(* The run span (Spec) *)

(* C27: the span of an online run that creates a new DAG ends padding      *)
(* seconds before the latest data and starts at the end of the last run    *)
(* recorded in segments.txt, or else one chunk less the padding before its *)
(* end when /dev/shm is used and 4000 seconds before its end otherwise;    *)
(* the data span is the span widened by the padding on both sides; an      *)
(* offline run takes the span of --gps whatever segments.txt holds         *)
C27_NominalSpan ==
    [][(pc = "span" /\ err' # "IOError") =>
          /\ datastart' = start' - (overlap \div 2)
          /\ dataend' = end' + (overlap \div 2)
          /\ (args.online /\ newdag) =>
                /\ \E latest \in Latests : end' = latest - (overlap \div 2)
                /\ start' = IF segfile # <<>> THEN segfile[Len(segfile)][2]
                            ELSE IF args.use_dev_shm
                                 THEN end' - chunkdur + (overlap \div 2)
                            ELSE end' - 4000
          /\ ~args.online => (start' = args.gps[1] /\ end' = args.gps[2])]_vars

(* an online run that creates a new DAG went on from the recorded end of   *)
(* the last run                                                            *)
C27_Witness ==
    /\ pc = "segments" /\ args.online /\ newdag
    /\ segfile # <<>> /\ start = segfile[Len(segfile)][2]
    /\ start # end - 4000 /\ datastart = start - (overlap \div 2)

-----------------------------------------------------------------------------
(* The frame of the truncation (SpecSeg) *)

(* C28: the truncation changes segs or dataend only in an online run that  *)
(* creates a new DAG and whose last segment ends at dataend; it never      *)
(* changes a segment other than the last                                   *)
C28_TruncationFrame ==
    [][(pc = "truncate" /\ pc' = "frames") =>
          /\ (segs' # segs \/ dataend' # dataend) =>
                /\ args.online /\ ~args.rescue /\ ~args.reattach
                /\ segs # <<>> /\ segs[Len(segs)][2] = dataend
          /\ Len(segs') <= Len(segs)
          /\ \A k \in 1..(Len(segs) - 1) :
                k \in DOMAIN segs' /\ segs'[k] = segs[k]]_vars

(* an online rescue run and an online reattached run whose last segment    *)
(* ends at dataend have gone through the truncation, after another segment *)
C28_Witness ==
    /\ pc = "frames" /\ args.online /\ (args.rescue \/ args.reattach)
    /\ Len(segs) = 2 /\ segs[2][2] = dataend

-----------------------------------------------------------------------------
(* The post-processing operations (SpecOps) *)

(* the options --skip-root-merge, --skip-hdf5-merge, --skip-ligolw_add and *)
(* --skip-gzip (414-437), the format each is about and the marker it puts  *)
(* on the operation of that format                                         *)
SkipFlags ==
    { <<"skip_root_merge", "root", "--no-merge">>,
      <<"skip_hdf5_merge", "hdf5", "--no-merge">>,
      <<"skip_ligolw_add", "xml", "--no-merge">>,
      <<"skip_gzip", "xml", "--no-gzip">> }

(* the command line with one of the options given instead of left out, or  *)
(* left out instead of given                                               *)
Toggled(a, flag) ==
    CASE flag = "skip_root_merge" -> [a EXCEPT !.skip_root_merge = ~@]
      [] flag = "skip_hdf5_merge" -> [a EXCEPT !.skip_hdf5_merge = ~@]
      [] flag = "skip_ligolw_add" -> [a EXCEPT !.skip_ligolw_add = ~@]
      [] flag = "skip_gzip" -> [a EXCEPT !.skip_gzip = ~@]

SymDiff(A, B) == (A \ B) \cup (B \ A)

(* C29: when one of the four options is toggled, the operation of every    *)
(* other format is the same, the operation of the format of the option     *)
(* differs by the marker of the option and by nothing else, and the files  *)
(* declared as inputs of the node and listed for removal are the same      *)
C29_IndependentToggles ==
    pc = "exec" =>
        \A n \in PostNodes : \A fl \in SkipFlags :
            LET b == Toggled(args, fl[1])
                chanlist == write_distributed(args.nchannels,
                                              args.max_channels_per_job)[dag[n].pfile]
            IN /\ \A c \in Range(chanlist) : \A form \in args.fileformats :
                    IF form = fl[2]
                    THEN /\ SymDiff(Operation(b, dag[n], c, form).markers,
                                    Operation(args, dag[n], c, form).markers) = {fl[3]}
                         /\ Operation(b, dag[n], c, form).files
                               = Operation(args, dag[n], c, form).files
                    ELSE Operation(b, dag[n], c, form) = Operation(args, dag[n], c, form)
               /\ InputFiles(b, dag[n]) = InputFiles(args, dag[n])
               /\ RmFiles(b, dag) = RmFiles(args, dag)

-----------------------------------------------------------------------------
(* The end of the submission loop (SpecLive) *)

(* the last status seen is an exit code 0, or no exit code at all *)
LoopStopped == stats # <<>> /\ stats[Len(stats)] # "nonzero"

(* after such a status the run is archiving or has archived, and the error *)
(* of a DAG that failed for good is not raised                             *)
StoppedCleanly ==
    LoopStopped =>
        /\ err # "RuntimeError: DAG has failed"
        /\ \/ pc \in {"archive", "done"} /\ err = ""
           \/ pc = "raised" /\ archived # {}

(* C30: a DAG is submitted again only after a DAG of this run has exited   *)
(* with a non-zero code; after an exit code 0 or a status without exit     *)
(* code nothing more is submitted, no error is raised and the run goes on  *)
(* to the archival and ends                                                *)
C30_ResubmitOnlyAfterFailure ==
    /\ []StoppedCleanly
    /\ [][/\ (nsubmit' > nsubmit /\ stats # <<>>) => stats[Len(stats)] = "nonzero"
          /\ LoopStopped => (nsubmit' = nsubmit /\ stats' = stats)]_vars
    /\ (LoopStopped ~> (archived # {}))

(* a first DAG failed, the second one ended without exit code, and the run *)
(* is done                                                                 *)
C30_Witness ==
    /\ pc = "done" /\ err = "" /\ nsubmit = 2
    /\ stats = <<"nonzero", "unknown">>

-----------------------------------------------------------------------------
(* The retries of the nodes (SpecOps) *)

(* C31: every omicron node and every post-processing node of the DAG has   *)
(* the number of retries given by --condor-retry                           *)
C31_RetryOnEveryNode ==
    pc = "exec" =>
        \A n \in Positions(dag, "omicron") \cup PostNodes :
            dag[n].retry = args.condor_retry

(* a DAG of several omicron nodes and a post-processing node, built with a *)
(* number of retries that is not the default                               *)
C31_Witness ==
    /\ pc = "exec" /\ args.condor_retry = 5
    /\ Cardinality(Positions(dag, "omicron")) >= 3
    /\ Cardinality(PostNodes) >= 2
    /\ \A n \in Positions(dag, "omicron") \cup PostNodes : dag[n].retry = 5

-----------------------------------------------------------------------------
(* The retry of a failed query (SpecStatus) *)

(* the error, if any, of each call made for one query, in order *)
Attempts(q) ==
    LET made == SelectSeq(queries, LAMBDA x : x.query = q)
    IN [k \in DOMAIN made |-> made[k].result.error]

(* C32: a query that fails with IOError is made once more and only once    *)
(* more; when the second call fails too nothing more is tried and no OK is *)
(* written; a query that did not fail with IOError is not made again       *)
C32_TransientRetriedOnce ==
    pc = "checked" =>
        /\ \A q \in {"manager", "node"} :
              /\ Len(Attempts(q)) <= 2
              /\ (Attempts(q) # <<>> /\ Attempts(q)[1] = "IOError")
                    => Len(Attempts(q)) = 2
              /\ (Attempts(q) # <<>> /\ Attempts(q)[1] # "IOError")
                    => Len(Attempts(q)) = 1
        /\ (queries # <<>> /\ queries[Len(queries)].result.error = "IOError")
              => \A k \in DOMAIN nagios : nagios[k] # 0

-----------------------------------------------------------------------------
(* The writes of segments.txt in one run (Spec) *)

(* C33: a run writes segments.txt at most once, at one of three places:    *)
(* the exit without segment to analyse, the --no-submit exit, the return   *)
(* of the first submission; a later iteration of the loop never writes it  *)
C33_WrittenAtMostOnce ==
    /\ [](/\ Len(writes) <= 1
          /\ \A k \in DOMAIN writes :
                /\ writes[k][1] \in {"catchup", "nosubmit", "submit"}
                /\ writes[k][2] = 0)
    /\ [][/\ segfile' # segfile => writes' # writes
          /\ writes' # writes => (writes = <<>> /\ i = 0 /\ nsubmit <= 1)]_vars

(* the DAG was submitted a second time, and segments.txt was written once, *)
(* after the first submission                                              *)
C33_Witness ==
    /\ nsubmit = 2 /\ i = 1 /\ pc = "monitor"
    /\ writes = << <<"submit", 0>> >>

-----------------------------------------------------------------------------
(* The end recorded in segments.txt (SpecSeg) *)

(* C34: when an online run that creates a new DAG writes segments.txt, the *)
(* end of the last segment written is not before the end of the last       *)
(* segment the file held, which the run started from                       *)
C34_WatermarkMonotonic ==
    [][(args.online /\ newdag /\ segfile # <<>> /\ segfile' # segfile) =>
          /\ segfile' # <<>>
          /\ segfile'[Len(segfile')][2] >= segfile[Len(segfile)][2]]_vars

-----------------------------------------------------------------------------
(* The trigger segments of an online run (Spec) *)

Within(sg, s, e) == s <= sg[1] /\ sg[1] < sg[2] /\ sg[2] <= e

(* C35: in an online run that creates a new DAG, every trigger segment     *)
(* lies within start and end, and so does the span written to              *)
(* segments.txt, which reaches the end of the last trigger segment: the    *)
(* next run starts where the trigger segments of this one end              *)
C35_TriggersWithinSpan ==
    (args.online /\ newdag /\ pc \in {"compile", "nosubmit", "loop", "submitted",
                                      "monitor", "status", "archive", "done"}) =>
        /\ trigsegs # <<>>
        /\ \A k \in DOMAIN trigsegs : Within(trigsegs[k], start, end)
        /\ span = << Extent(trigsegs) >>
        /\ writes # <<>> =>
              /\ segfile = span
              /\ Within(segfile[1], start, end)
              /\ \A k \in DOMAIN trigsegs : trigsegs[k][2] <= segfile[1][2]

C35_Witness ==
    /\ args.online /\ newdag /\ pc = "monitor"
    /\ writes # <<>>
    /\ start = 1696
    /\ trigsegs[1][1] = start
    /\ trigsegs[Len(trigsegs)][2] < end

-----------------------------------------------------------------------------
(* The truncation loop (SpecRestep) *)

(* C36: with chunk > overlap >= 0 the loop ends; every iteration increases *)
(* t, t never exceeds the reduced end e, and the loop is left after at     *)
(* most (e - s) / (chunk - overlap) + 1 iterations                         *)
C36_RestepTerminates ==
    /\ [](/\ restep.t <= restep.e
          /\ restep.n <= (restep.e - restep.s) \div (restep.chunk - restep.overlap) + 1)
    /\ [][restep' # restep => restep'.t > restep.t]_vars
    /\ <>(pc = "truncated")

C36_Witness ==
    /\ pc = "truncated"
    /\ restep.n = 3
    /\ restep.overlap > 0
    /\ dataend = restep.s + restep.chunk + 2 * (restep.chunk - restep.overlap)

-----------------------------------------------------------------------------
(* The 'force' option of condor_submit_dag (Spec) *)

(* C37: a submission is given the option 'force' only if it is the first   *)
(* submission of a run that is not in rescue mode                          *)
C37_ForceOnlyFirst ==
    [][(nsubmit' = nsubmit + 1 /\ Count(args.dagman_option, "force") > 0) =>
          (nsubmit = 0 /\ ~args.rescue)]_vars

-----------------------------------------------------------------------------
(* A run that reattaches to a running DAG (Spec) *)

(* line 702 passed with --reattach and a running DAG *)
ReattachMode == args.reattach /\ pc \notin {"start", "check"}

-----------------------------------------------------------------------------
(* The archive of the files of a run (Spec) *)

(* C39: archiving and cleaning up leave segments.txt where it is, with the *)
(* content it had: it is copied to the log directory while the other files *)
(* kept are moved, and it is not among the temporary files deleted         *)
C39_WatermarkKept ==
    /\ [][pc = "archive" => segfile' = segfile]_vars
    /\ [](pc = "done" =>
            /\ <<"segments.txt", "copy">> \in archived
            /\ \A x \in archived : x[1] # "segments.txt" => x[2] = "move"
            /\ "segments.txt" \notin cleaned
            /\ segfile # <<>>)

C39_Witness ==
    /\ pc = "done"
    /\ args.online /\ newdag
    /\ writes = << <<"submit", 0>> >>
    /\ segfile = span
    /\ <<"parameters.txt", "move">> \in archived
    /\ "post-process.sh" \in cleaned

====
